---------------------------- MODULE Spec2Model ----------------------------
(***************************************************************************)
(* A model of the pact-vm interpreter ("Rim"): the instruction codec, the  *)
(* program loader read_file and the execution engine Rim::run with its     *)
(* device dispatcher Rim::io.                                              *)
(*                                                                         *)
(* Bytes are naturals 0..255.  Opcode and Device values are strings, a     *)
(* Register is its discriminant 0..3 (the code only ever uses it as an     *)
(* index), U3 and U4 are their numeric values.                             *)
(***************************************************************************)
EXTENDS Integers, Sequences, FiniteSets, TLC

(***************************************************************************)
(* Bit arithmetic on naturals.                                             *)
(***************************************************************************)
RECURSIVE BitAnd(_, _)
BitAnd(a, b) ==
    IF a = 0 \/ b = 0 THEN 0
    ELSE ((a % 2) * (b % 2)) + 2 * BitAnd(a \div 2, b \div 2)

RECURSIVE BitOr(_, _)
BitOr(a, b) ==
    IF a = 0 THEN b
    ELSE IF b = 0 THEN a
    ELSE (IF (a % 2) + (b % 2) > 0 THEN 1 ELSE 0) + 2 * BitOr(a \div 2, b \div 2)

Shr(a, n) == a \div (2 ^ n)

\* usize shift: no bits are lost
Shl(a, n) == a * (2 ^ n)

\* u8 shift: the bits shifted out of the byte are lost
Shl8(a, n) == (a * (2 ^ n)) % 256

Byte == 0 .. 255

(***************************************************************************)
(* helper.rs: the field codecs, and the Register and Device conversions.   *)
(***************************************************************************)
U3From(value) == BitAnd(value, 7)

U4From(value) == BitAnd(value, 15)

RegisterFrom(id) == BitAnd(id, 3)

DeviceFrom(id) ==
    CASE BitAnd(id, 3) = 0 -> "Cpu"
      [] BitAnd(id, 3) = 1 -> "Kbd"
      [] BitAnd(id, 3) = 2 -> "Scr"
      [] BitAnd(id, 3) = 3 -> "Mth"

DeviceAsU8(device) ==
    CASE device = "Cpu" -> 0
      [] device = "Kbd" -> 1
      [] device = "Scr" -> 2
      [] device = "Mth" -> 3

OpcodeFrom(opcode) ==
    CASE BitAnd(opcode, 7) = 0 -> "Adi"
      [] BitAnd(opcode, 7) = 1 -> "Add"
      [] BitAnd(opcode, 7) = 2 -> "Sub"
      [] BitAnd(opcode, 7) = 3 -> "Jne"
      [] BitAnd(opcode, 7) = 4 -> "Jg"
      [] BitAnd(opcode, 7) = 5 -> "Jl"
      [] BitAnd(opcode, 7) = 6 -> "Ioi"
      [] BitAnd(opcode, 7) = 7 -> "Ior"

OpcodeAsU8(op) ==
    CASE op = "Adi" -> 0
      [] op = "Add" -> 1
      [] op = "Sub" -> 2
      [] op = "Jne" -> 3
      [] op = "Jg"  -> 4
      [] op = "Jl"  -> 5
      [] op = "Ioi" -> 6
      [] op = "Ior" -> 7

(***************************************************************************)
(* The instruction codec.                                                  *)
(***************************************************************************)
\* Opcode::parse_data with the io function field read from bits 4..6
ParseDataFnShift4(op, data) ==
    CASE op = "Adi" -> [kind |-> "Imm", imm |-> Shr(data, 3)]
      [] op \in {"Add", "Sub"} ->
            [kind |-> "Reg", is_id |-> BitAnd(data, 8) # 0,
             src |-> RegisterFrom(Shr(data, 4)), dest |-> RegisterFrom(Shr(data, 6))]
      [] op \in {"Jne", "Jg", "Jl"} ->
            [kind |-> "Mem", is_ptr |-> BitAnd(data, 8) # 0, addr |-> U4From(Shr(data, 4))]
      [] op \in {"Ioi", "Ior"} ->
            [kind |-> "Io", device |-> DeviceFrom(Shr(data, 3)),
             function |-> U3From(Shr(data, 4))]

\* Opcode::parse_data with the immediate shifted one bit short
ParseDataImmShift2(op, data) ==
    CASE op = "Adi" -> [kind |-> "Imm", imm |-> Shr(data, 2)]
      [] op \in {"Add", "Sub"} ->
            [kind |-> "Reg", is_id |-> BitAnd(data, 8) # 0,
             src |-> RegisterFrom(Shr(data, 4)), dest |-> RegisterFrom(Shr(data, 6))]
      [] op \in {"Jne", "Jg", "Jl"} ->
            [kind |-> "Mem", is_ptr |-> BitAnd(data, 8) # 0, addr |-> U4From(Shr(data, 4))]
      [] op \in {"Ioi", "Ior"} ->
            [kind |-> "Io", device |-> DeviceFrom(Shr(data, 3)),
             function |-> U3From(Shr(data, 5))]

ParseData(op, data) ==
    CASE op = "Adi" -> [kind |-> "Imm", imm |-> Shr(data, 3)]
      [] op \in {"Add", "Sub"} ->
            [kind |-> "Reg", is_id |-> BitAnd(data, 8) # 0,
             src |-> RegisterFrom(Shr(data, 4)), dest |-> RegisterFrom(Shr(data, 6))]
      [] op \in {"Jne", "Jg", "Jl"} ->
            [kind |-> "Mem", is_ptr |-> BitAnd(data, 8) # 0, addr |-> U4From(Shr(data, 4))]
      [] op \in {"Ioi", "Ior"} ->
            [kind |-> "Io", device |-> DeviceFrom(Shr(data, 3)),
             function |-> U3From(Shr(data, 5))]

\* impl From<InstructionData> for u8
DataToU8(d) ==
    CASE d.kind = "Imm" -> BitOr(0, Shl8(d.imm, 3))
      [] d.kind = "Reg" ->
            BitOr(BitOr(IF d.is_id THEN Shl8(1, 3) ELSE 0, Shl8(d.src, 4)), Shl8(d.dest, 6))
      [] d.kind = "Mem" ->
            BitOr(IF d.is_ptr THEN Shl8(1, 3) ELSE 0, Shl8(d.addr, 4))
      [] d.kind = "Io" ->
            BitOr(Shl8(DeviceAsU8(d.device), 3), Shl8(d.function, 5))

\* impl From<Instruction> for u8
InstructionToU8(instruction) ==
    BitOr(OpcodeAsU8(instruction.op), DataToU8(instruction.data))

\* the decoding of one byte in read_file's loop
DecodeByte(byte) ==
    [op |-> OpcodeFrom(byte), data |-> ParseData(OpcodeFrom(byte), BitAnd(byte, 248))]

(***************************************************************************)
(* The machine state of a Rim (lib.rs 52-59, 276-280).  The data segment   *)
(* is 4096 bytes, all zero at construction; it is kept as the function of  *)
(* its non-zero cells, and every access checks the index against DataLen   *)
(* as the slice index does.                                                *)
(***************************************************************************)
DataLen == 4096

NumRegs == 4

InData(addr) == addr \in 0 .. (DataLen - 1)

InRegs(idx) == idx \in 0 .. (NumRegs - 1)

DataGet(data, addr) == IF addr \in DOMAIN data THEN data[addr] ELSE 0

DataSet(data, addr, v) ==
    IF v = 0 THEN [a \in (DOMAIN data) \ {addr} |-> data[a]]
    ELSE [a \in (DOMAIN data) \cup {addr} |-> IF a = addr THEN v ELSE data[a]]

ZeroData == [a \in {} |-> 0]

(***************************************************************************)
(* Arithmetic of the engine.                                               *)
(***************************************************************************)
\* u8::wrapping_add losing the wrap (saturating instead)
WrappingAddSaturating(a, b) == IF a + b > 255 THEN 255 ELSE a + b

WrappingAdd(a, b) == (a + b) % 256

\* u8::overflowing_sub reporting no borrow when the operands are equal or smaller
OverflowingSubLeq(a, b) == [res |-> (a - b) % 256, sign |-> a <= b]

OverflowingSub(a, b) == [res |-> (a - b) % 256, sign |-> a < b]

\* the zero test of the result, inverted
IsZeroInverted(res) == res # 0

IsZero(res) == res = 0

\* ((self.registers[3] as usize) << 4) | low as usize, shifting by a whole byte
ComposeAddrShift8(high, low) == BitOr(Shl(high, 8), low)

ComposeAddr(high, low) == BitOr(Shl(high, 4), low)

\* the operand registers with the register's value used as the index unmasked
ResolveRegUnmasked(registers, id, is_id) ==
    IF is_id THEN registers[id] ELSE id

\* the operand registers of Add and Sub (lib.rs 75-85, 95-105)
ResolveReg(registers, id, is_id) ==
    IF is_id THEN RegisterFrom(registers[id]) ELSE id

\* the jump conditions with Jl testing the sign flag alone
JumpTakenJlIgnoresZero(op, flags) ==
    CASE op = "Jne" -> ~flags[1]
      [] op = "Jg"  -> flags[0]
      [] op = "Jl"  -> ~flags[0]

\* the jump conditions with Jg taken on a clear sign flag
JumpTakenJgInverted(op, flags) ==
    CASE op = "Jne" -> ~flags[1]
      [] op = "Jg"  -> ~flags[0]
      [] op = "Jl"  -> ~flags[0] /\ ~flags[1]

\* the condition under which a jump writes the position counter
JumpTaken(op, flags) ==
    CASE op = "Jne" -> ~flags[1]
      [] op = "Jg"  -> flags[0]
      [] op = "Jl"  -> ~flags[0] /\ ~flags[1]

(***************************************************************************)
(* Rim::io.  The result is the machine after the call, the signal          *)
(* ("next": Ok(false), "halt": Ok(true), "panic": the call panicked) and   *)
(* what was printed.                                                       *)
(***************************************************************************)
Next_(m) == [m |-> m, sig |-> "next", print |-> <<>>]

Panic_(m) == [m |-> m, sig |-> "panic", print |-> <<>>]

SetAcc(m, v) == [m EXCEPT !.registers[0] = v]

\* Device::Cpu function 0 not signalling the halt
CpuHaltIgnored(m) == Next_(m)

CpuHalt(m) == [m |-> m, sig |-> "halt", print |-> <<>>]

\* Device::Cpu function 3 with the high register shifted by a whole byte
CpuLoadShift8(m, value) ==
    LET addr == BitOr(Shl(m.registers[3], 8), value)
    IN  IF InData(addr) THEN Next_(SetAcc(m, DataGet(m.data, addr))) ELSE Panic_(m)

\* Device::Cpu function 3
CpuLoad(m, value) ==
    LET addr == ComposeAddr(m.registers[3], value)
    IN  IF InData(addr) THEN Next_(SetAcc(m, DataGet(m.data, addr))) ELSE Panic_(m)

\* Device::Cpu function 4
CpuStore(m, value) ==
    LET addr == ComposeAddr(m.registers[3], m.registers[0])
    IN  IF InData(addr) THEN Next_([m EXCEPT !.data = DataSet(m.data, addr, value)])
        ELSE Panic_(m)

\* Device::Cpu function 5
CpuLoadInd(m, value) ==
    LET addr1 == ComposeAddr(m.registers[3], value)
        addr == BitOr(Shl(m.registers[3], 4), addr1)
    IN  IF InData(addr) THEN Next_(SetAcc(m, DataGet(m.data, addr))) ELSE Panic_(m)

\* Device::Cpu function 6
CpuStoreInd(m, value) ==
    LET addr1 == ComposeAddr(m.registers[3], m.registers[0])
        addr == BitOr(Shl(m.registers[3], 4), addr1)
    IN  IF InData(addr) THEN Next_([m EXCEPT !.data = DataSet(m.data, addr, value)])
        ELSE Panic_(m)

IoCpu(m, function, value) ==
    CASE function = 0 -> CpuHalt(m)
      [] function = 1 -> Next_(m)
      [] function = 2 -> Next_(SetAcc(m, 0))
      [] function = 3 -> CpuLoad(m, value)
      [] function = 4 -> CpuStore(m, value)
      [] function = 5 -> CpuLoadInd(m, value)
      [] function = 6 -> CpuStoreInd(m, value)
      [] function = 7 -> Next_(m)

\* Device::Kbd: functions 0 and 1 are todo!()
IoKbd(m, function, value) ==
    IF function \in {0, 1} THEN Panic_(m) ELSE Next_(m)

IoScr(m, function, value) ==
    CASE function = 0 -> [m |-> m, sig |-> "next", print |-> << <<"row", value>> >>]
      [] function = 1 -> [m |-> m, sig |-> "next", print |-> << <<"col", value>> >>]
      [] function = 2 -> [m |-> m, sig |-> "next", print |-> << <<"char", value>> >>]
      [] function = 3 -> Next_(SetAcc(m, 0))
      [] function = 4 -> Next_(SetAcc(m, 0))
      [] function = 5 -> [m |-> m, sig |-> "next", print |-> << <<"clear", 0>> >>]
      [] function = 6 -> Next_(m)
      [] function = 7 -> Next_(m)

\* Device::Mth function 0 multiplying in 8 bits
MthMulNarrow(m, value) ==
    IF ~InRegs(value) THEN Panic_(m)
    ELSE LET res == (m.registers[0] * m.registers[value]) % 256
         IN  Next_([m EXCEPT !.registers[0] = res,
                             !.registers[1] = 0,
                             !.flags[1] = IsZero(res)])

\* Device::Mth function 0
MthMul(m, value) ==
    IF ~InRegs(value) THEN Panic_(m)
    ELSE LET res == (m.registers[0] * m.registers[value]) % 65536
         IN  Next_([m EXCEPT !.registers[0] = res % 256,
                             !.registers[1] = Shr(res, 8),
                             !.flags[1] = IsZero(res)])

\* Device::Mth function 1 with a zero divisor giving 0 instead of failing
MthDivZeroSkipped(m, value) ==
    IF ~InRegs(value) THEN Panic_(m)
    ELSE IF m.registers[value] = 0
         THEN Next_([m EXCEPT !.registers[0] = 0, !.flags[1] = TRUE])
    ELSE LET res == m.registers[0] \div m.registers[value]
         IN  Next_([m EXCEPT !.registers[0] = res, !.flags[1] = IsZero(res)])

\* Device::Mth function 1
MthDiv(m, value) ==
    IF ~InRegs(value) THEN Panic_(m)
    ELSE IF m.registers[value] = 0 THEN Panic_(m)
    ELSE LET res == m.registers[0] \div m.registers[value]
         IN  Next_([m EXCEPT !.registers[0] = res, !.flags[1] = IsZero(res)])

MthSelf(m, res) == Next_([m EXCEPT !.registers[0] = res, !.flags[1] = IsZero(res)])

IoMth(m, function, value) ==
    CASE function = 0 -> MthMul(m, value)
      [] function = 1 -> MthDiv(m, value)
      [] function = 2 -> MthSelf(m, BitAnd(m.registers[0], m.registers[0]))
      [] function = 3 -> MthSelf(m, BitOr(m.registers[0], m.registers[0]))
      [] function = 4 -> MthSelf(m, 0)
      [] function = 5 -> MthSelf(m, 255 - m.registers[0])
      [] function = 6 ->
            LET res == BitOr(IF m.flags[0] THEN 1 ELSE 0, IF m.flags[1] THEN 2 ELSE 0)
            IN  IF InRegs(res) THEN Next_(m) ELSE Panic_(m)
      [] function = 7 ->
            Next_([m EXCEPT !.flags[0] = BitAnd(value, 1) # 0,
                            !.flags[1] = BitAnd(value, 2) # 0])

Io(m, device, function, value) ==
    CASE device = "Cpu" -> IoCpu(m, function, value)
      [] device = "Kbd" -> IoKbd(m, function, value)
      [] device = "Scr" -> IoScr(m, function, value)
      [] device = "Mth" -> IoMth(m, function, value)

(***************************************************************************)
(* One iteration of the loop of Rim::run: the match on the opcode.         *)
(***************************************************************************)
ExecAdi(m, d) ==
    IF d.kind # "Imm" THEN Panic_(m)
    ELSE LET res == WrappingAdd(m.registers[0], d.imm)
         IN  Next_([m EXCEPT !.registers[0] = res,
                             !.flags[0] = FALSE,
                             !.flags[1] = IsZero(res)])

ExecAdd(m, d) ==
    IF d.kind # "Reg" THEN Panic_(m)
    ELSE LET src  == ResolveReg(m.registers, d.src, d.is_id)
             dest == ResolveReg(m.registers, d.dest, d.is_id)
             res  == WrappingAdd(m.registers[dest], m.registers[src])
         IN  IF ~InRegs(src) \/ ~InRegs(dest) THEN Panic_(m)
             ELSE Next_([m EXCEPT !.registers[dest] = res,
                                  !.flags[0] = FALSE,
                                  !.flags[1] = IsZero(res)])

ExecSub(m, d) ==
    IF d.kind # "Reg" THEN Panic_(m)
    ELSE LET src  == ResolveReg(m.registers, d.src, d.is_id)
             dest == ResolveReg(m.registers, d.dest, d.is_id)
             r    == OverflowingSub(m.registers[dest], m.registers[src])
         IN  IF ~InRegs(src) \/ ~InRegs(dest) THEN Panic_(m)
             ELSE Next_([m EXCEPT !.registers[dest] = r.res,
                                  !.flags[0] = r.sign,
                                  !.flags[1] = IsZero(r.res)])

\* Jne, Jg and Jl (lib.rs 113-145): the three arms differ in the condition only
ExecJump(m, op, d) ==
    IF d.kind # "Mem" THEN Panic_(m)
    ELSE LET addr1 == ComposeAddr(m.registers[3], d.addr)
         IN  IF d.is_ptr /\ ~InData(addr1) THEN Panic_(m)
             ELSE LET addr == IF d.is_ptr
                              THEN ComposeAddr(m.registers[3], DataGet(m.data, addr1))
                              ELSE addr1
                  IN  IF JumpTaken(op, m.flags) THEN Next_([m EXCEPT !.pc = addr])
                      ELSE Next_(m)

ExecIoi(m, d) ==
    IF d.kind # "Io" THEN Panic_(m)
    ELSE Io(m, d.device, d.function, m.registers[0])

\* self.registers[self.registers[0] as usize] is an unmasked index
ExecIor(m, d) ==
    IF d.kind # "Io" THEN Panic_(m)
    ELSE IF ~InRegs(m.registers[0]) THEN Panic_(m)
    ELSE Io(m, d.device, d.function, m.registers[m.registers[0]])

Execute(m, instruction) ==
    CASE instruction.op = "Adi" -> ExecAdi(m, instruction.data)
      [] instruction.op = "Add" -> ExecAdd(m, instruction.data)
      [] instruction.op = "Sub" -> ExecSub(m, instruction.data)
      [] instruction.op \in {"Jne", "Jg", "Jl"} ->
            ExecJump(m, instruction.op, instruction.data)
      [] instruction.op = "Ioi" -> ExecIoi(m, instruction.data)
      [] instruction.op = "Ior" -> ExecIor(m, instruction.data)

(***************************************************************************)
(* State.                                                                  *)
(*   cbyte, cinstr, cout      a byte, its decoding and the encoding of     *)
(*                            that (the codec taken alone)                 *)
(*   stream, fpos             the file's bytes and the read position       *)
(*   failAt, nio              the I/O operations that fail (by number),    *)
(*                            and the number of I/O operations done        *)
(*   lpc, signature, result   read_file: position, header, what it returns *)
(*   instructions, pc, registers, flags, data     the Rim                  *)
(*   rpc, prog, it            run: position, the cloned instruction        *)
(*                            sequence and the iterator's next index       *)
(*   outcome, how             what run returned, and why                   *)
(*   executed, prev, stdout   history: the positions executed, the machine *)
(*                            before the last one, and what was printed    *)
(*   twin                     the run, from the same state, of the same    *)
(*                            program with every jump replaced by Ioi Cpu  *)
(*                            1: its machine, iterator, position in run,   *)
(*                            how it ended and the positions it executed   *)
(***************************************************************************)
VARIABLES cbyte, cinstr, cout,
          stream, fpos, failAt, nio, lpc, signature, result,
          instructions, pc, registers, flags, data,
          rpc, prog, it, outcome, how, executed, prev, stdout, twin

codecVars == <<cbyte, cinstr, cout>>

loadVars == <<stream, fpos, failAt, nio, lpc, signature, result>>

rimVars == <<instructions, pc, registers, flags, data>>

runVars == <<rpc, prog, it, outcome, how, executed, prev, stdout, twin>>

vars == <<cbyte, cinstr, cout,
          stream, fpos, failAt, nio, lpc, signature, result,
          instructions, pc, registers, flags, data,
          rpc, prog, it, outcome, how, executed, prev, stdout, twin>>

NoInstr == [op |-> "none"]

Machine == [registers |-> registers, flags |-> flags, data |-> data, pc |-> pc]

NoMachine == [registers |-> <<>>, flags |-> <<>>, data |-> ZeroData, pc |-> 0]

Min(a, b) == IF a < b THEN a ELSE b

(***************************************************************************)
(* The loader.                                                             *)
(***************************************************************************)
MAGIC == 35786

BufLen == 12

\* check_magic comparing the first byte only
CheckMagicHighOnly(sig) == Shl(sig[1], 8) = BitAnd(MAGIC, 65280)

check_magic(sig) == BitOr(Shl(sig[1], 8), sig[2]) = MAGIC

\* let mut file = File::open(f)?;
OpenFile ==
    /\ lpc = "open"
    /\ nio' = nio + 1
    /\ IF nio \in failAt
       THEN lpc' = "failed" /\ result' = "IoError"
       ELSE lpc' = "header" /\ result' = result
    /\ UNCHANGED <<stream, fpos, failAt, signature>>
    /\ UNCHANGED <<codecVars, rimVars, runVars>>

\* file.read_exact(&mut signature)?;  a stream that ends early is an I/O error
ReadHeader ==
    /\ lpc = "header"
    /\ nio' = nio + 1
    /\ IF nio \in failAt \/ Len(stream) - fpos < 2
       THEN /\ lpc' = "failed"
            /\ result' = "IoError"
            /\ UNCHANGED <<signature, fpos>>
       ELSE /\ signature' = <<stream[fpos + 1], stream[fpos + 2]>>
            /\ fpos' = fpos + 2
            /\ lpc' = "magic"
            /\ result' = result
    /\ UNCHANGED <<stream, failAt>>
    /\ UNCHANGED <<codecVars, rimVars, runVars>>

\* if !check_magic(signature) { return Err(RimError::InvalidMagic); }
CheckHeader ==
    /\ lpc = "magic"
    /\ IF check_magic(signature)
       THEN lpc' = "body" /\ result' = result
       ELSE lpc' = "failed" /\ result' = "InvalidMagic"
    /\ UNCHANGED <<stream, fpos, failAt, nio, signature>>
    /\ UNCHANGED <<codecVars, rimVars, runVars>>

\* the bytes of one read, decoded in order and pushed
DecodeChunkReversed(bytes) == [i \in 1 .. Len(bytes) |-> DecodeByte(bytes[Len(bytes) + 1 - i])]

DecodeChunk(bytes) == [i \in 1 .. Len(bytes) |-> DecodeByte(bytes[i])]

\* read_file returns Ok(Rim { instructions, ..Default::default() })
ReturnRim ==
    /\ lpc' = "done"
    /\ result' = "Ok"
    /\ pc' = 0
    /\ registers' = [i \in 0 .. 3 |-> 0]
    /\ flags' = [i \in 0 .. 1 |-> FALSE]
    /\ data' = ZeroData

\* One turn of `while let Ok(read) = file.read(&mut buf)`: a read of 1..12
\* bytes is decoded; a read of 0 bytes (the end of the stream) breaks; a
\* failed read does not match Ok(read), which ends the loop as well.
ReadChunk ==
    /\ lpc = "body"
    /\ nio' = nio + 1
    /\ \/ /\ nio \notin failAt
          /\ fpos < Len(stream)
          /\ \E n \in 1 .. Min(BufLen, Len(stream) - fpos) :
                /\ instructions' = instructions \o DecodeChunk(SubSeq(stream, fpos + 1, fpos + n))
                /\ fpos' = fpos + n
          /\ UNCHANGED <<lpc, result, pc, registers, flags, data>>
       \/ /\ nio \notin failAt
          /\ fpos = Len(stream)
          /\ ReturnRim
          /\ UNCHANGED <<instructions, fpos>>
       \/ /\ nio \in failAt
          /\ ReturnRim
          /\ UNCHANGED <<instructions, fpos>>
    /\ UNCHANGED <<stream, failAt, signature>>
    /\ UNCHANGED <<codecVars, runVars>>

(***************************************************************************)
(* The engine: Rim::run.                                                   *)
(***************************************************************************)
\* the iterator's next index, were it taken from the position counter a jump wrote
AdvanceIterByPc(i, before, after) == IF after.pc # before.pc THEN after.pc + 1 ELSE i + 1

\* the iterator over the cloned sequence yields the next element whatever pc holds
AdvanceIter(i, before, after) == i + 1

IsJump(i) == i.op \in {"Jne", "Jg", "Jl"}

\* the instruction with a jump replaced by Ioi Cpu 1 (byte 0x26)
NoJump(i) == IF IsJump(i) THEN DecodeByte(38) ELSE i

NoJumps(p) == [k \in 1 .. Len(p) |-> NoJump(p[k])]

NoTwin ==
    [registers |-> <<>>, flags |-> <<>>, data |-> ZeroData, pc |-> 0,
     it |-> 1, rpc |-> "idle", how |-> "none", executed |-> <<>>]

\* the twin enters the loop in the state the run enters it
TwinStart(m) ==
    [registers |-> m.registers, flags |-> m.flags, data |-> m.data, pc |-> m.pc,
     it |-> 1, rpc |-> "loop", how |-> "none", executed |-> <<>>]

\* the loop's body in the twin, on the instruction its own iterator yields from p
TwinStep(t, p) ==
    IF t.rpc # "loop" \/ t.it > Len(p) THEN t
    ELSE LET before == [registers |-> t.registers, flags |-> t.flags,
                        data |-> t.data, pc |-> t.pc]
             r == Execute(before, p[t.it])
         IN  [registers |-> r.m.registers, flags |-> r.m.flags,
              data |-> r.m.data, pc |-> r.m.pc,
              it |-> IF r.sig = "next" THEN AdvanceIter(t.it, before, r.m) ELSE t.it,
              rpc |-> IF r.sig = "next" THEN "loop" ELSE "done",
              how |-> IF r.sig = "next" THEN t.how ELSE r.sig,
              executed |-> Append(t.executed, t.it)]

\* the twin's iterator is exhausted
TwinEnd(t, p) ==
    IF t.rpc = "loop" /\ t.it > Len(p) THEN [t EXCEPT !.rpc = "done", !.how = "end"] ELSE t

\* for instruction in self.instructions.clone()
RunStart ==
    /\ lpc = "done" /\ result = "Ok"
    /\ rpc = "idle"
    /\ rpc' = "loop"
    /\ prog' = instructions
    /\ it' = 1
    /\ twin' = TwinStart(Machine)
    /\ UNCHANGED <<outcome, how, executed, prev, stdout>>
    /\ UNCHANGED <<codecVars, loadVars, rimVars>>

\* the loop's body on the instruction the iterator yields
Step ==
    /\ rpc = "loop"
    /\ it <= Len(prog)
    /\ LET r == Execute(Machine, prog[it])
       IN  /\ registers' = r.m.registers
           /\ flags' = r.m.flags
           /\ data' = r.m.data
           /\ pc' = r.m.pc
           /\ stdout' = stdout \o r.print
           /\ executed' = Append(executed, it)
           /\ prev' = Machine
           /\ twin' = TwinStep(twin, NoJumps(prog))
           /\ CASE r.sig = "next" ->
                     it' = AdvanceIter(it, Machine, r.m) /\ UNCHANGED <<rpc, outcome, how>>
                [] r.sig = "halt" ->
                     rpc' = "done" /\ outcome' = "Ok" /\ how' = "halt" /\ it' = it
                [] r.sig = "panic" ->
                     rpc' = "done" /\ outcome' = "panic" /\ how' = "panic" /\ it' = it
    /\ UNCHANGED <<instructions, prog>>
    /\ UNCHANGED <<codecVars, loadVars>>

\* the iterator is exhausted: Ok(())
RunEnd ==
    /\ rpc = "loop"
    /\ it > Len(prog)
    /\ rpc' = "done"
    /\ outcome' = "Ok"
    /\ how' = "end"
    /\ twin' = TwinEnd(twin, NoJumps(prog))
    /\ UNCHANGED <<prog, it, executed, prev, stdout>>
    /\ UNCHANGED <<codecVars, loadVars, rimVars>>

(***************************************************************************)
(* The codec taken alone.                                                  *)
(***************************************************************************)
Decode ==
    /\ cinstr = NoInstr
    /\ cinstr' = DecodeByte(cbyte)
    /\ UNCHANGED <<cbyte, cout>>
    /\ UNCHANGED <<loadVars, rimVars, runVars>>

Encode ==
    /\ cinstr # NoInstr
    /\ cout = {}
    /\ cout' = {InstructionToU8(cinstr)}
    /\ UNCHANGED <<cbyte, cinstr>>
    /\ UNCHANGED <<loadVars, rimVars, runVars>>

(***************************************************************************)
(* Bounds and the inputs drawn within them.                                *)
(***************************************************************************)
\* the longest instruction stream built freely over BodyBytes
MaxBody == 2

\* the length of the patterned stream, longer than one read buffer
LongLen == 14

\* I/O operations 0..MaxFail may be the one that fails
MaxFail == 3

\* the longest program the engine is started on in the middle of a run
MaxProg == 2

SeqsUpTo(S, n) == UNION {[1 .. k -> S] : k \in 0 .. n}

\* Adi 5, Adi 31, Ioi Cpu 0 (halt), Sub Ra from Rb, Add Ra to Rd, Jg 2, Jne 1,
\* Ioi Mth 7 (set flags), Ioi Cpu 4 (store), Ioi Cpu 3 (load), Ioi Mth 5 (not),
\* Ioi Scr 2 (print), Ior Kbd 0 (todo!)
BodyBytes == {40, 248, 6, 66, 193, 36, 19, 254, 134, 102, 190, 86, 15}

\* a stream of LongLen distinct instruction bytes, none of which halts or panics
\* from the all-zero machine: Adi 1, Adi 2, ...
LongBody == [i \in 1 .. LongLen |-> 8 * i]

\* Adi 1; Add Ra to Rd; Adi 31; Adi 16; Ioi Cpu 4; Ioi Cpu 2; Adi 31; Adi 1; Ioi Cpu 3:
\* stores 0x30 at 0x30 with Rd = 1, then loads with Rd = 1 and Ra = 0x20
LoadScenario == <<8, 193, 248, 128, 134, 70, 248, 8, 102>>

\* Adi 18; Add Ra to Rd; Adi 14; Ioi Cpu 4 (0x20 to 0x120, Rd = 0x12); Ioi Cpu 2;
\* Adi 17; Sub Ra from Rd (Rd = 1); Ioi Cpu 2; Adi 31; Adi 17; Ioi Cpu 4 (0x30 to
\* 0x30); Ioi Cpu 2; Adi 31; Adi 1; Ioi Cpu 3: the same load with 0x120 written too
LoadScenario2 == <<144, 193, 112, 134, 70, 136, 194, 70, 248, 136, 134, 70, 248, 8, 102>>

\* Adi 4; Ior Cpu 1: a no-op sent by Ior with the accumulator holding 4
IorScenario == <<32, 39>>

\* Adi 5; Add Ra to Rb; Ioi Cpu 2; Adi 1; Ior Cpu 4: a store sent by Ior with
\* Ra = 1, Rb = 5 and Rd = 0
StoreScenario == <<40, 65, 70, 8, 135>>

\* Adi 1; Add Ra to Rd; Adi 31; Adi 1; Ioi Cpu 4 (0x21 to 0x031, Rd = 1);
\* Sub Rd from Rd; Adi 16; Ioi Cpu 5: a pointer load with Rd = 0 and Ra = 0x31,
\* where 0x031 holds 0x21 and 0x021 holds 0
PointerScenario == <<8, 193, 248, 8, 134, 242, 128, 166>>

Bodies ==
    SeqsUpTo(BodyBytes, MaxBody)
        \cup {<<b>> : b \in Byte}
        \cup {SubSeq(LongBody, 1, n) : n \in 0 .. LongLen}
        \cup {LoadScenario, LoadScenario2, IorScenario, StoreScenario, PointerScenario}

MagicBytes == <<139, 202>>

AllPairs == {<<a, b>> : a \in Byte, b \in Byte}

FailSets == {{}} \cup {{k} : k \in 0 .. MaxFail}

Streams == AllPairs \cup {<<>>, <<139>>} \cup {MagicBytes \o b : b \in Bodies}

IdleCodec == cbyte = 0 /\ cinstr = NoInstr /\ cout = {}

IdleLoad ==
    /\ stream = <<>> /\ fpos = 0 /\ failAt = {} /\ nio = 0
    /\ signature = <<0, 0>>

NoHistory == executed = <<>> /\ prev = NoMachine /\ stdout = <<>>

ZeroRim ==
    /\ instructions = <<>>
    /\ pc = 0
    /\ registers = [i \in 0 .. 3 |-> 0]
    /\ flags = [i \in 0 .. 1 |-> FALSE]
    /\ data = ZeroData

(***************************************************************************)
(* Spec: the program as main runs it, read_file and then run on the Rim    *)
(* it returns.  Every header pair is tried; I/O failures are tried on the  *)
(* other streams.                                                          *)
(***************************************************************************)
Init ==
    /\ IdleCodec
    /\ stream \in Streams
    /\ failAt \in (IF Len(stream) = 2 /\ stream # MagicBytes THEN {{}} ELSE FailSets)
    /\ fpos = 0 /\ nio = 0 /\ lpc = "open"
    /\ signature = <<0, 0>>
    /\ result = "none"
    /\ ZeroRim
    /\ rpc = "idle" /\ prog = <<>> /\ it = 1
    /\ outcome = "none" /\ how = "none"
    /\ NoHistory
    /\ twin = NoTwin

Next ==
    \/ OpenFile
    \/ ReadHeader
    \/ CheckHeader
    \/ ReadChunk
    \/ RunStart
    \/ Step
    \/ RunEnd

Spec == Init /\ [][Next]_vars

(***************************************************************************)
(* SpecRun: the engine at the top of its loop in the middle of a run.  run *)
(* is a public method of a Rim that keeps its registers, flags and memory  *)
(* from one call to the next, and an instruction is executed in whatever   *)
(* state the instructions before it left.  Every register value is         *)
(* produced by Adi and Add, every flag pair by Ioi Mth 7, and each cell of *)
(* MemImage by a Cpu 4 store:                                              *)
(*   0x001 = 0x77  Ior, Ra = 1, Rb = 0x77, Rd = 0                          *)
(*   0x011 = 0x05  Ior, Ra = 1, Rb = 0x05, Rd = 1                          *)
(*   0x030 = 0x30  Ioi, Ra = 0x30, Rd = 1                                  *)
(*   0x120 = 0x20  Ioi, Ra = 0x20, Rd = 0x12                               *)
(*   0xFF1 = 0xFF  Ior, Ra = 1, Rb = 0xFF, Rd = 0xFF                       *)
(***************************************************************************)
MemImage == (1 :> 119) @@ (17 :> 5) @@ (48 :> 48) @@ (288 :> 32) @@ (4081 :> 255)

RaVals == {0, 1, 2, 3, 4, 5, 10, 32, 250, 255}

RbVals == {0, 5, 10, 255}

RcVals == {7}

RdVals == {0, 1, 255}

Regs(a, b, c, d) ==
    [i \in 0 .. 3 |-> CASE i = 0 -> a [] i = 1 -> b [] i = 2 -> c [] i = 3 -> d]

RegStates == {Regs(a, b, c, d) : a \in RaVals, b \in RbVals, c \in RcVals, d \in RdVals}

FewRegStates == {Regs(0, 0, 0, 0), Regs(5, 10, 7, 1)}

FlagStates == [0 .. 1 -> BOOLEAN]

DecodeAll(bytes) == [i \in 1 .. Len(bytes) |-> DecodeByte(bytes[i])]

\* every single instruction
SinglePrograms == {DecodeAll(<<b>>) : b \in Byte}

\* the short sequences over BodyBytes
ShortPrograms == {DecodeAll(p) : p \in SeqsUpTo(BodyBytes, MaxProg)}

MidRun ==
    /\ IdleCodec
    /\ IdleLoad
    /\ lpc = "done" /\ result = "Ok"
    /\ pc = 0
    /\ rpc = "loop" /\ prog = instructions /\ it = 1
    /\ outcome = "none" /\ how = "none"
    /\ NoHistory
    /\ twin = TwinStart(Machine)

InitRun ==
    /\ \/ /\ instructions \in SinglePrograms
          /\ registers \in RegStates
       \/ /\ instructions \in ShortPrograms
          /\ registers \in FewRegStates
    /\ flags \in FlagStates
    /\ data \in {ZeroData, MemImage}
    /\ MidRun

NextRun ==
    \/ Step
    \/ RunEnd

SpecRun == InitRun /\ [][NextRun]_vars

(***************************************************************************)
(* SpecAlu: the arithmetic instructions on every pair of byte values in    *)
(* Ra and Rb: Add and Sub between the two, direct and indirect, and, with  *)
(* Rb = 0, Add and Sub of Ra with itself and Adi with every immediate.     *)
(***************************************************************************)
\* Add Ra to Rb, Sub Ra from Rb, and the same with the indirect flag
PairBytes == {65, 66, 73, 74}

\* Add Ra to Ra, Sub Ra from Ra, and Adi 0 .. 31
SoloBytes == {1, 2} \cup {8 * k : k \in 0 .. 31}

InitAlu ==
    /\ \/ /\ instructions \in {DecodeAll(<<b>>) : b \in PairBytes}
          /\ registers \in {Regs(a, b, 7, 1) : a \in Byte, b \in Byte}
       \/ /\ instructions \in {DecodeAll(<<b>>) : b \in SoloBytes}
          /\ registers \in {Regs(a, 0, 7, 1) : a \in Byte}
    /\ flags = [i \in 0 .. 1 |-> TRUE]
    /\ data = ZeroData
    /\ MidRun

SpecAlu == InitAlu /\ [][NextRun]_vars

(***************************************************************************)
(* SpecCodec: the codec on every byte.                                     *)
(***************************************************************************)
InitCodec ==
    /\ cbyte \in Byte /\ cinstr = NoInstr /\ cout = {}
    /\ IdleLoad
    /\ lpc = "done" /\ result = "none"
    /\ ZeroRim
    /\ rpc = "idle" /\ prog = <<>> /\ it = 1
    /\ outcome = "none" /\ how = "none"
    /\ NoHistory
    /\ twin = NoTwin

NextCodec ==
    \/ Decode
    \/ Encode

SpecCodec == InitCodec /\ [][NextCodec]_vars

(***************************************************************************)
(* What the last executed instruction was.                                 *)
(***************************************************************************)
Ran == executed # <<>>

LastPos == executed[Len(executed)]

LastInstr == prog[LastPos]

IsHalt(i) == i.op = "Ioi" /\ i.data.device = "Cpu" /\ i.data.function = 0

IoFailed == failAt \cap (0 .. (nio - 1)) # {}

HeaderOk == Len(stream) >= 2 /\ stream[1] = 139 /\ stream[2] = 202

\* the register an Add or Sub works on, as the instruction set describes it:
\* the id itself, or with the indirect flag the register the id's register names
Operand(regs, id, indirect) == IF indirect THEN regs[id] % 4 ELSE id

Mod256(n) == IF n < 0 THEN n + 256 ELSE IF n > 255 THEN n - 256 ELSE n

(***************************************************************************)
(* C1.  Every byte decodes to an instruction that encodes back to the same *)
(* byte: once a byte has been decoded and the instruction encoded, the     *)
(* encoding is the byte.                                                   *)
(***************************************************************************)
RoundTrip == cout # {} => cout = {cbyte}

\* the byte 0xFF, Ior to Mth function 7, has made the round trip
RoundTripWitness ==
    /\ cbyte = 255 /\ cout = {255}
    /\ cinstr = [op |-> "Ior", data |-> [kind |-> "Io", device |-> "Mth", function |-> 7]]

(***************************************************************************)
(* C2.  When the header matches and no read fails, read_file does not end  *)
(* in an error, and the Rim it returns holds one instruction per byte      *)
(* after the header, instruction i being the decoding of byte i + 2,       *)
(* however the stream was split into reads; a stream that is the header    *)
(* alone gives the empty program.                                          *)
(***************************************************************************)
LoadDecodesEveryByte ==
    (HeaderOk /\ ~IoFailed) =>
        /\ result \in {"none", "Ok"}
        /\ lpc # "failed"
        /\ (lpc = "done" =>
                /\ result = "Ok"
                /\ Len(instructions) = Len(stream) - 2
                /\ \A i \in 1 .. Len(instructions) :
                      instructions[i] = DecodeByte(stream[i + 2]))

\* a stream longer than the read buffer has been loaded in at least three reads
LoadWitness ==
    /\ lpc = "done" /\ result = "Ok" /\ failAt = {}
    /\ Len(stream) - 2 > BufLen
    /\ Len(instructions) = Len(stream) - 2
    /\ nio >= 6

(***************************************************************************)
(* C3.  read_file goes past the header only for a stream of at least two   *)
(* bytes that starts 0x8B, 0xCA; check_magic is true of that pair and of   *)
(* no other; for a shorter stream or any other pair read_file ends in an   *)
(* error and no instruction is decoded.                                    *)
(***************************************************************************)
HeaderGate ==
    /\ (lpc \in {"body", "done"} => HeaderOk)
    /\ (lpc = "magic" => (check_magic(signature) <=> signature = <<139, 202>>))
    /\ (~HeaderOk =>
            /\ instructions = <<>>
            /\ result \in {"none", "IoError", "InvalidMagic"}
            /\ lpc \in {"open", "header", "magic", "failed"}
            /\ (lpc = "failed" => result \in {"IoError", "InvalidMagic"})
            /\ rpc = "idle")

\* the pair 0x8B, 0xCB, one bit from the magic, has been rejected
HeaderGateWitness ==
    /\ stream = <<139, 203>>
    /\ lpc = "failed" /\ result = "InvalidMagic"
    /\ instructions = <<>>

(***************************************************************************)
(* C4.  Whenever an I/O operation of read_file has failed, in the header   *)
(* or in the instruction stream, read_file returns the I/O error.          *)
(***************************************************************************)
IoFailureSurfaces ==
    (IoFailed /\ lpc \in {"done", "failed"}) => result = "IoError"

(***************************************************************************)
(* C5.  An Ioi to Cpu function 0 ends the run at once and successfully: it *)
(* is the last instruction executed, and registers, flags, memory and the  *)
(* position counter are as they were just before it.                       *)
(***************************************************************************)
HaltEndsRun ==
    /\ \A k \in 1 .. (Len(executed) - 1) : ~IsHalt(prog[executed[k]])
    /\ (Ran /\ IsHalt(LastInstr)) =>
            /\ rpc = "done" /\ outcome = "Ok" /\ how = "halt"
            /\ Machine = prev

\* a halt in first position has ended a two-instruction run with Ra = 5 kept
HaltWitness ==
    /\ Len(prog) = 2 /\ executed = <<1>> /\ IsHalt(prog[1])
    /\ rpc = "done" /\ how = "halt"
    /\ registers[0] = 5 /\ prev.registers[0] = 5

(***************************************************************************)
(* C6.  run executes the positions 1, 2, ... in order, each at most once,  *)
(* so at most Len(prog) instructions, jumps included; while it has not     *)
(* returned, the loop's body has an outcome on the instruction it is at    *)
(* (it goes on, halts or panics), the iterator is one past the positions   *)
(* executed, and so the run returns after at most Len(prog) + 1 steps.     *)
(***************************************************************************)
RunBounded ==
    /\ Len(executed) <= Len(prog)
    /\ \A k \in 1 .. Len(executed) : executed[k] = k
    /\ (rpc = "loop" => it = Len(executed) + 1 /\ it <= Len(prog) + 1)
    /\ (rpc = "loop" /\ it <= Len(prog) =>
            Execute(Machine, prog[it]).sig \in {"next", "halt", "panic"})
    /\ (rpc = "done" => outcome \in {"Ok", "panic"} /\ how \in {"end", "halt", "panic"})

\* a run has ended past a taken jump that wrote the position counter
RunBoundedWitness ==
    /\ rpc = "done" /\ how = "end"
    /\ Len(prog) = 2 /\ executed = <<1, 2>>
    /\ prog[1].op = "Jne" /\ pc = 1

(***************************************************************************)
(* C7.  Adi makes Ra the sum of Ra and the immediate mod 256, Add makes    *)
(* the destination register the sum of destination and source mod 256,     *)
(* both with the sign flag cleared; Sub makes the destination register     *)
(* destination minus source mod 256 and sets the sign flag exactly when    *)
(* the destination was smaller than the source.                            *)
(***************************************************************************)
ArithmeticLaw ==
    (Ran /\ LastInstr.op \in {"Adi", "Add", "Sub"}) =>
        LET i == LastInstr
            old == prev.registers
        IN  /\ how # "panic"
            /\ i.op = "Adi" =>
                  /\ registers[0] = Mod256(old[0] + i.data.imm)
                  /\ flags[0] = FALSE
            /\ i.op = "Add" =>
                  LET s == Operand(old, i.data.src, i.data.is_id)
                      d == Operand(old, i.data.dest, i.data.is_id)
                  IN  /\ registers[d] = Mod256(old[d] + old[s])
                      /\ flags[0] = FALSE
            /\ i.op = "Sub" =>
                  LET s == Operand(old, i.data.src, i.data.is_id)
                      d == Operand(old, i.data.dest, i.data.is_id)
                  IN  /\ registers[d] = Mod256(old[d] - old[s])
                      /\ flags[0] = (old[d] < old[s])

\* Adi 10 on Ra = 250 has given 4 with both flags false
ArithmeticWitness ==
    /\ Ran /\ LastInstr = [op |-> "Adi", data |-> [kind |-> "Imm", imm |-> 10]]
    /\ prev.registers[0] = 250
    /\ registers[0] = 4 /\ ~flags[0] /\ ~flags[1]

(***************************************************************************)
(* C8.  Right after an Adi, Add or Sub the zero flag is true exactly when  *)
(* the register the instruction wrote holds 0.                             *)
(***************************************************************************)
ZeroFlagLaw ==
    (Ran /\ LastInstr.op \in {"Adi", "Add", "Sub"}) =>
        LET i == LastInstr
            w == IF i.op = "Adi" THEN 0
                 ELSE Operand(prev.registers, i.data.dest, i.data.is_id)
        IN  flags[1] <=> (registers[w] = 0)

\* an indirect Sub has brought Rd from 255 to 0 and raised the zero flag
ZeroFlagWitness ==
    /\ Ran /\ LastInstr.op = "Sub" /\ LastInstr.data.is_id
    /\ Operand(prev.registers, LastInstr.data.dest, TRUE) = 3
    /\ prev.registers[3] = 255 /\ registers[3] = 0
    /\ flags[1] /\ ~prev.flags[1]

(***************************************************************************)
(* C9.  The stream 0x8B, 0xCA, 0x28, 0x06, read without an I/O failure,    *)
(* loads as Adi 5 followed by Ioi to Cpu function 0, and its run from the  *)
(* all-zero machine ends by the halt, without error, with Ra = 5 and the   *)
(* zero flag false.                                                        *)
(***************************************************************************)
EndToEnd ==
    (stream = <<139, 202, 40, 6>> /\ failAt = {}) =>
        /\ result \in {"none", "Ok"}
        /\ (lpc = "done" =>
                instructions =
                    << [op |-> "Adi", data |-> [kind |-> "Imm", imm |-> 5]],
                       [op |-> "Ioi", data |-> [kind |-> "Io", device |-> "Cpu", function |-> 0]] >>)
        /\ (rpc = "done" =>
                /\ outcome = "Ok" /\ how = "halt"
                /\ executed = <<1, 2>>
                /\ registers[0] = 5 /\ ~flags[1])

\* that run has ended
EndToEndWitness ==
    /\ stream = <<139, 202, 40, 6>> /\ failAt = {}
    /\ rpc = "done" /\ how = "halt" /\ registers[0] = 5

(***************************************************************************)
(* C10.  With Rd = 0x1 and Ra = 0x20 a direct load (Ioi to Cpu function 3) *)
(* puts into Ra the byte of the data segment at offset 0x30, which is      *)
(* (0x1 << 4) | 0x20.                                                      *)
(***************************************************************************)
IsDirectLoad(i) == i.op = "Ioi" /\ i.data.device = "Cpu" /\ i.data.function = 3

DirectLoadCase ==
    /\ Ran /\ IsDirectLoad(LastInstr)
    /\ prev.registers[3] = 1 /\ prev.registers[0] = 32

DirectLoadAt0x30 ==
    DirectLoadCase => (how # "panic" /\ registers[0] = DataGet(prev.data, 48))

\* the claim as stated: the load reads offset 0x120
DirectLoadAt0x120 ==
    DirectLoadCase => (how # "panic" /\ registers[0] = DataGet(prev.data, 288))

\* the load has read the 0x30 stored at offset 0x30
DirectLoadWitness ==
    /\ DirectLoadCase
    /\ DataGet(prev.data, 48) = 48 /\ DataGet(prev.data, 288) = 32
    /\ registers[0] = 48

(***************************************************************************)
(* C11.  A Jne, Jg or Jl changes nothing but the position counter.  It     *)
(* sets the counter to (Rd << 4) | offset, or with the pointer flag to     *)
(* (Rd << 4) | data[(Rd << 4) | offset], exactly when its condition holds  *)
(* (Jne: zero flag false; Jg: sign flag true; Jl: both flags false), and   *)
(* leaves it alone otherwise; registers, flags and memory are unchanged    *)
(* in both cases, nothing is printed and the run goes on.                  *)
(***************************************************************************)
\* the condition of a jump, as the instruction set describes it
JumpCondition(op, sign, zero) ==
    (op = "Jne" /\ ~zero) \/ (op = "Jg" /\ sign) \/ (op = "Jl" /\ ~sign /\ ~zero)

\* the target of a jump, as the instruction set describes it
JumpTarget(m, d) ==
    LET first == m.registers[3] * 16 + d.addr
    IN  IF d.is_ptr THEN BitOr(m.registers[3] * 16, DataGet(m.data, first)) ELSE first

JumpFrame ==
    (Ran /\ IsJump(LastInstr)) =>
        /\ how # "panic"
        /\ registers = prev.registers
        /\ flags = prev.flags
        /\ data = prev.data
        /\ pc = IF JumpCondition(LastInstr.op, prev.flags[0], prev.flags[1])
                THEN JumpTarget(prev, LastInstr.data)
                ELSE prev.pc

\* a taken pointer jump: Rd = 1, offset 1, the cell 0x011 holds 0x05, so the
\* counter becomes 0x15
JumpWitness ==
    /\ Ran /\ LastInstr.op = "Jl" /\ LastInstr.data.is_ptr
    /\ prev.registers[3] = 1 /\ LastInstr.data.addr = 1
    /\ DataGet(prev.data, 17) = 5
    /\ ~prev.flags[0] /\ ~prev.flags[1]
    /\ prev.pc = 0 /\ pc = 21

(***************************************************************************)
(* C12.  The position counter never influences execution.  The program     *)
(* with every Jne, Jg and Jl replaced by Ioi Cpu 1, run from the same      *)
(* state, executes the same positions in the same order and is, at every   *)
(* step and at the end, in the same registers, flags and memory with the   *)
(* same outcome as the program itself.                                     *)
(***************************************************************************)
PcNeverInfluences ==
    rpc \in {"loop", "done"} =>
        /\ twin.executed = executed
        /\ twin.registers = registers
        /\ twin.flags = flags
        /\ twin.data = data
        /\ twin.rpc = rpc
        /\ twin.how = how

\* a jump was taken (the two counters differ) and the instruction after it
\* was executed all the same, in both runs
PcWitness ==
    /\ rpc = "done" /\ how = "end"
    /\ executed = <<1, 2>>
    /\ IsJump(prog[1]) /\ prog[2].op = "Adi"
    /\ pc # twin.pc
    /\ twin.executed = <<1, 2>>

(***************************************************************************)
(* C13.  Add and Sub with the indirect flag work on registers[value of the *)
(* src register mod 4] and registers[value of the dest register mod 4],    *)
(* both taken from the state before the instruction; with the flag clear   *)
(* on the src and dest ids themselves.  Either way the indices are in      *)
(* 0..3, the instruction does not fail, the destination receives the sum   *)
(* or difference of the two and no other register changes.                 *)
(***************************************************************************)
OperandsResolved ==
    (Ran /\ LastInstr.op \in {"Add", "Sub"}) =>
        LET d == LastInstr.data
            s == Operand(prev.registers, d.src, d.is_id)
            t == Operand(prev.registers, d.dest, d.is_id)
            x == prev.registers[t]
            y == prev.registers[s]
        IN  /\ s \in 0 .. 3 /\ t \in 0 .. 3
            /\ how # "panic"
            /\ registers[t] = IF LastInstr.op = "Add" THEN (x + y) % 256 ELSE (x - y) % 256
            /\ \A i \in (0 .. 3) \ {t} : registers[i] = prev.registers[i]

\* an indirect Add whose src register holds 255 (so Rd) and whose dest register
\* holds 5 (so Rb): Rb becomes 5 + 1
OperandsWitness ==
    /\ Ran /\ LastInstr.op = "Add" /\ LastInstr.data.is_id
    /\ LastInstr.data.src = 0 /\ LastInstr.data.dest = 1
    /\ prev.registers = Regs(255, 5, 7, 1)
    /\ registers = Regs(255, 6, 7, 1)
    /\ how # "panic"

(***************************************************************************)
(* C14.  For every accumulator value, an Ior passes to the device the      *)
(* contents of the register whose index is the accumulator mod 4, and      *)
(* never fails because of the index: the state after an Ior, and whether   *)
(* the run failed, are those of the device function called with            *)
(* registers[accumulator mod 4].                                           *)
(***************************************************************************)
IorMasksIndex ==
    (Ran /\ LastInstr.op = "Ior") =>
        LET d == LastInstr.data
            r == Io(prev, d.device, d.function, prev.registers[prev.registers[0] % 4])
        IN  /\ Machine = r.m
            /\ (how = "panic") <=> (r.sig = "panic")

(***************************************************************************)
(* C15.  Cpu function 4 stores the accumulator into the data segment at    *)
(* (Rd << 4) | value, where value is what the instruction passed to the    *)
(* device: the accumulator for Ioi, the register the accumulator selects   *)
(* for Ior.  Nothing else in memory changes.                               *)
(***************************************************************************)
IsCpu(i, f) == i.op \in {"Ioi", "Ior"} /\ i.data.device = "Cpu" /\ i.data.function = f

\* the value an Ioi or Ior passes to the device, as the instruction set describes it
PassedValue(i, m) ==
    IF i.op = "Ioi" THEN m.registers[0] ELSE m.registers[m.registers[0] % 4]

StoreAccAtValue ==
    (Ran /\ IsCpu(LastInstr, 4) /\ how # "panic") =>
        LET value == PassedValue(LastInstr, prev)
            addr  == BitOr(prev.registers[3] * 16, value)
        IN  data = DataSet(prev.data, addr, prev.registers[0])

(***************************************************************************)
(* C16.  Cpu functions 5 and 6 use one level of memory indirection like    *)
(* the pointer form of the jumps: with b the byte stored at (Rd << 4) |    *)
(* operand, function 5 loads the accumulator from (Rd << 4) | b and        *)
(* function 6 stores the accumulator to (Rd << 4) | b.  Stated for Ioi,    *)
(* where the operand is the accumulator.                                   *)
(***************************************************************************)
PointerLoadStore ==
    (Ran /\ LastInstr.op = "Ioi" /\ (IsCpu(LastInstr, 5) \/ IsCpu(LastInstr, 6))) =>
        LET high  == prev.registers[3] * 16
            first == BitOr(high, prev.registers[0])
            b     == DataGet(prev.data, first)
            addr  == BitOr(high, b)
        IN  /\ how # "panic"
            /\ IsCpu(LastInstr, 5) =>
                    /\ registers = [prev.registers EXCEPT ![0] = DataGet(prev.data, addr)]
                    /\ data = prev.data
            /\ IsCpu(LastInstr, 6) =>
                    /\ registers = prev.registers
                    /\ data = DataSet(prev.data, addr, prev.registers[0])

(***************************************************************************)
(* C17.  Every data-segment address computed by a jump (direct or pointer  *)
(* form) and by Cpu functions 3, 4, 5 and 6 lies in 0..4095, whatever the  *)
(* registers and the memory hold: these instructions never fail on a       *)
(* memory access, the counter a jump writes and every cell written are     *)
(* within the segment.  An Ior is counted when its register selection      *)
(* succeeds (accumulator in 0..3), which comes before any address.         *)
(***************************************************************************)
UsesAddress(i, m) ==
    \/ IsJump(i)
    \/ /\ \E f \in 3 .. 6 : IsCpu(i, f)
       /\ i.op = "Ior" => m.registers[0] \in 0 .. 3

AddressesInSegment ==
    /\ pc \in 0 .. (DataLen - 1)
    /\ DOMAIN data \subseteq 0 .. (DataLen - 1)
    /\ (Ran /\ UsesAddress(LastInstr, prev)) => how # "panic"

\* a taken pointer jump with Rd = 255 through 0xFF1, which holds 0xFF: the
\* counter becomes 0xFFF
AddressesWitness ==
    /\ Ran /\ IsJump(LastInstr) /\ LastInstr.data.is_ptr /\ LastInstr.data.addr = 1
    /\ prev.registers[3] = 255
    /\ DataGet(prev.data, 4081) = 255
    /\ pc = 4095
    /\ how # "panic"

(***************************************************************************)
(* C18.  Each fatal condition ends run at once with a fatal outcome, and   *)
(* no later instruction executes: Math function 1 when the selected        *)
(* register holds 0, Keyboard functions 0 and 1 whenever they are called,  *)
(* and Math functions 0 and 1 called with a value of 4 or more (no         *)
(* register has that index).  None of them is clamped or skipped.          *)
(***************************************************************************)
IsIo(i, dev, fns) ==
    i.op \in {"Ioi", "Ior"} /\ i.data.device = dev /\ i.data.function \in fns

\* the instruction i, about to execute on m, meets one of the fatal conditions;
\* for an Ior the value is the one its register selection yields
FatalCondition(i, m) ==
    /\ i.op \in {"Ioi", "Ior"}
    /\ i.op = "Ior" => m.registers[0] \in 0 .. 3
    /\ LET value == IF i.op = "Ioi" THEN m.registers[0] ELSE m.registers[m.registers[0]]
       IN  \/ IsIo(i, "Kbd", {0, 1})
           \/ IsIo(i, "Mth", {0, 1}) /\ value >= 4
           \/ IsIo(i, "Mth", {1}) /\ value < 4 /\ m.registers[value] = 0

FatalEndsRun ==
    [][ /\ (executed' # executed /\ FatalCondition(prog[it], Machine)) =>
              /\ how' = "panic" /\ outcome' = "panic" /\ rpc' = "done"
              /\ executed' = Append(executed, it)
        /\ how = "panic" => executed' = executed
      ]_vars

\* a division by a register that holds 0: Ioi Mth 1 with Ra = 1 and Rb = 0
FatalWitness ==
    /\ Ran /\ IsIo(LastInstr, "Mth", {1}) /\ LastInstr.op = "Ioi"
    /\ prev.registers[0] = 1 /\ prev.registers[1] = 0
    /\ how = "panic" /\ outcome = "panic" /\ rpc = "done"
    /\ registers = prev.registers

(***************************************************************************)
(* C19.  Math function 0 with accumulator a and selected register value r  *)
(* (the index is the value passed, in 0..3) computes p = a * r without     *)
(* loss and sets the accumulator to p mod 256, the general register to     *)
(* p div 256 and the zero flag to p = 0; the sign flag, the other          *)
(* registers and memory are unchanged.  The selected register may be the   *)
(* accumulator or the general register itself.                             *)
(***************************************************************************)
\* a Math 0 whose register selections all succeed
MulCase ==
    /\ Ran /\ IsIo(LastInstr, "Mth", {0})
    /\ LastInstr.op = "Ior" => prev.registers[0] \in 0 .. 3
    /\ PassedValue(LastInstr, prev) \in 0 .. 3

WideningMultiply ==
    MulCase =>
        LET a == prev.registers[0]
            r == prev.registers[PassedValue(LastInstr, prev)]
            p == a * r
        IN  /\ how # "panic"
            /\ p < 65536
            /\ registers[0] = p % 256
            /\ registers[1] = p \div 256
            /\ registers[2] = prev.registers[2]
            /\ registers[3] = prev.registers[3]
            /\ flags[1] = (p = 0)
            /\ flags[0] = prev.flags[0]
            /\ data = prev.data

\* 3 * 255 = 765 = 0x02FD, the selected register being the general register
\* (Ior with Ra = 3, Rd = 1, Rb = 255)
WideningWitness ==
    /\ MulCase /\ LastInstr.op = "Ior"
    /\ prev.registers = Regs(3, 255, 7, 1)
    /\ registers = Regs(253, 2, 7, 1)
    /\ ~flags[1]

(***************************************************************************)
(* C20.  From the all-zero machine, a program with no Sub and no call of   *)
(* Math function 7 never has the sign flag set, in any state of its load   *)
(* and run; so a Jg of such a program never writes the position counter.   *)
(***************************************************************************)
NoSignWriter(p) ==
    \A k \in 1 .. Len(p) : p[k].op # "Sub" /\ ~IsIo(p[k], "Mth", {7})

SignStaysClear ==
    NoSignWriter(instructions) =>
        /\ ~flags[0]
        /\ (Ran /\ LastInstr.op = "Jg") => pc = prev.pc

\* Jne 1; Jg 2: the Jne has written 1 to the counter and the Jg leaves it there
SignWitness ==
    /\ NoSignWriter(instructions)
    /\ executed = <<1, 2>>
    /\ prog[1].op = "Jne" /\ prog[2].op = "Jg" /\ prog[2].data.addr = 2
    /\ ~flags[0]
    /\ prev.pc = 1 /\ pc = 1

============================================================================
